---- MODULE Spec2Model ----
(***************************************************************************)
(* Group-wise aggregation kernels of pandas/_libs/groupby.pyx.             *)
(*                                                                         *)
(* A kernel run is a state machine: the caller's buffers (values, labels,  *)
(* mask, out, counts, result_mask) and the kernel's scalars are fixed by   *)
(* Init, the kernel's loops are the actions.                               *)
(*                                                                         *)
(* Representation.                                                         *)
(*  - Reducers treat the columns of `values` independently (every buffer   *)
(*    they touch inside `for j in range(K)` is indexed [.., j]), so the    *)
(*    model carries one column: values[i] is values[i, j], out[g] is       *)
(*    out[g, j], nobs[g] is nobs[g, j].  counts is per row, as in the code.*)
(*  - Rows are numbered 1..N (Python 0..N-1), groups 0..ngroups-1.         *)
(*  - Element values are integers.  The 64-bit integer range is scaled to  *)
(*    IntBits bits.  NaN, +inf/-inf and "memory nobody wrote" are code     *)
(*    points outside that range; every comparison and arithmetic step that *)
(*    can meet NaN goes through the F* operators below.                    *)
(*  - Quotients are kept exact by carrying a fixed denominator             *)
(*    (MeanScale, VarScale, MedianDen, QDen) in the output.                *)
(***************************************************************************)
EXTENDS Integers, Sequences, FiniteSets, TLC

\* ------------------------------------------------------------------ bounds
MaxRows == 2
NGroups == 2
IntBits == 4
QBits == 2
MaxPeriods == 2
MaxLimit == 2
FloatPrec == 3

\* ------------------------------------------------------------ value codes
NPY_NAT == -(2^(IntBits - 1))
Int64Max == 2^(IntBits - 1) - 1
UInt64Max == 2^IntBits - 1
Inf == 2^(IntBits + 2)
NaN == -(2^(IntBits + 6))
\* content of a buffer cell the kernel has not written (np.empty, or the
\* caller's preallocated out)
Uninit == NaN - 1

Groups == 0 .. (NGroups - 1)
Labels == {-1} \cup Groups

RECURSIVE Gcd(_, _)
Gcd(a, b) == IF b = 0 THEN a ELSE Gcd(b, a % b)

RECURSIVE LcmUpTo(_)
LcmUpTo(n) == IF n <= 1 THEN 1 ELSE LET l == LcmUpTo(n - 1) IN (l * n) \div Gcd(l, n)

\* denominators of the exact quotients
MeanScale == LcmUpTo(MaxRows + 1)
VarScale == MeanScale * MeanScale * MeanScale
MedianDen == 2

\* ------------------------------------------------------- float arithmetic
FGt(a, b) == a # NaN /\ b # NaN /\ a > b
FLt(a, b) == a # NaN /\ b # NaN /\ a < b
FMax(a, b) == IF FGt(b, a) THEN b ELSE a
FMin(a, b) == IF FLt(b, a) THEN b ELSE a

\* Rounded arithmetic of a binary floating-point format with FloatPrec
\* significant bits, round to nearest, ties to even.  The finite values are
\* integers (multiples of the smallest spacing), Inf and -Inf the infinities;
\* a result of magnitude Inf or more after rounding is an infinity.
Abs(x) == IF x < 0 THEN -x ELSE x

IsFinite(x) == x # NaN /\ x # Inf /\ x # -Inf

\* spacing of the format at magnitude a
RECURSIVE Spacing(_, _)
Spacing(a, q) == IF a < 2^FloatPrec * q THEN q ELSE Spacing(a, 2 * q)

RoundNearestEven(x) ==
    LET a == Abs(x)
        q == Spacing(a, 1)
        lo == (a \div q) * q
        rem == a - lo
        r == IF 2 * rem < q THEN lo
             ELSE IF 2 * rem > q THEN lo + q
             ELSE IF (lo \div q) % 2 = 0 THEN lo ELSE lo + q
        m == IF r >= Inf THEN Inf ELSE r
    IN IF x < 0 THEN -m ELSE m

RAdd(a, b) ==
    IF a = NaN \/ b = NaN THEN NaN
    ELSE IF ~IsFinite(a) THEN (IF ~IsFinite(b) /\ b # a THEN NaN ELSE a)
    ELSE IF ~IsFinite(b) THEN b
    ELSE RoundNearestEven(a + b)

RSub(a, b) == RAdd(a, IF b = NaN THEN NaN ELSE -b)

VARIABLES
    kernel,           \* the kernel being run
    pc,               \* "entry", "finalize", "done", "raised"
    dtype,            \* element type of values/out
    values,           \* one column of the value matrix
    labels,
    uses_mask,        \* mask is not None
    mask,             \* the mask column (<<>> when mask is None)
    min_count,
    rank,
    ddof,
    is_datetimelike,
    args,             \* further scalar and index arguments, by their source names
    mask_in,          \* the mask as the caller passed it
    pos,              \* the row (or group) the kernel's loop has reached: its i
    counts,
    out,
    result_mask,
    scratch,          \* the kernel's internal buffers, by their source names
    err               \* exception raised, "" if none

vars == << kernel, pc, dtype, values, labels, uses_mask, mask, min_count, rank,
           ddof, is_datetimelike, args, mask_in, pos, counts, out, result_mask,
           scratch, err >>

inputs == << kernel, dtype, values, labels, uses_mask, min_count, rank, ddof,
             is_datetimelike, args, mask_in >>

N == Len(values)

GroupFn(v) == [g \in Groups |-> v]

\* ------------------------------------------------------------ NA predicate
TreatAsNaDatetimeInt(val, dtl) == dtl /\ val = NPY_NAT

TreatAsNa(val, dt, dtl) ==
    CASE dt = "int64" -> TreatAsNaDatetimeInt(val, dtl)
      [] dt = "uint64" -> FALSE
      [] OTHER -> val = NaN

MaskBit(i) == IF uses_mask THEN mask[i] ELSE FALSE


\* mutant: the mask is ignored, missingness is read off the stored value
IsnaEntryFromValue(i, val, dt, dtl) == TreatAsNa(val, dt, dtl)

IsnaEntry(i, val, dt, dtl) ==
    IF uses_mask THEN MaskBit(i) ELSE TreatAsNa(val, dt, dtl)

\* ----------------------------------------------------------- row steps
\* mutant: counts only incremented for the first group
CountRowFirstGroup(c, lab) == IF lab = 0 THEN [c EXCEPT ![lab] = @ + 1] ELSE c

\* `if lab < 0: continue` / `counts[lab] += 1`, shared by the reducers
CountRow(c, lab) == [c EXCEPT ![lab] = @ + 1]

\* group_add, numeric track: Kahan step on a non-NA value
AddIsValid(val, dtl) == val # NaN /\ ~(dtl /\ val = NPY_NAT)

AddRow(s, lab, val) ==
    IF lab < 0 THEN s
    ELSE LET s1 == [s EXCEPT !.counts = CountRow(@, lab)]
         IN IF AddIsValid(val, is_datetimelike)
            THEN LET y == RSub(val, s1.compensation[lab])
                     t == RAdd(s1.sumx[lab], y)
                 IN [s1 EXCEPT !.nobs[lab] = @ + 1,
                               !.compensation[lab] = RSub(RSub(t, s1.sumx[lab]), y),
                               !.sumx[lab] = t]
            ELSE s1

ProdRow(s, lab, val) ==
    IF lab < 0 THEN s
    ELSE LET s1 == [s EXCEPT !.counts = CountRow(@, lab)]
         IN IF val # NaN
            THEN [s1 EXCEPT !.nobs[lab] = @ + 1, !.prodx[lab] = @ * val]
            ELSE s1

\* group_var: Welford update.  mean carries the denominator MeanScale, the
\* running M2 kept in out carries MeanScale^2; both quotients are exact.
VarRow(s, lab, val) ==
    IF lab < 0 THEN s
    ELSE LET s1 == [s EXCEPT !.counts = CountRow(@, lab)]
         IN IF val # NaN
            THEN LET n == s1.nobs[lab] + 1
                     oldmean == s1.mean[lab]
                     newmean == oldmean + ((MeanScale * val - oldmean) \div n)
                 IN [s1 EXCEPT !.nobs[lab] = n,
                               !.mean[lab] = newmean,
                               !.out[lab] = @ + (MeanScale * val - newmean)
                                                * (MeanScale * val - oldmean)]
            ELSE s1

\* group_mean: the mask argument is accepted and never read
MeanRow(s, lab, val) ==
    IF lab < 0 THEN s
    ELSE LET s1 == [s EXCEPT !.counts = CountRow(@, lab)]
         IN IF val # NaN /\ ~(is_datetimelike /\ val = NPY_NAT)
            THEN LET y == val - s1.compensation[lab]
                     t == s1.sumx[lab] + y
                 IN [s1 EXCEPT !.nobs[lab] = @ + 1,
                               !.compensation[lab] = t - s1.sumx[lab] - y,
                               !.sumx[lab] = t]
            ELSE s1

\* group_ohlc: out[g] = <<open, high, low, close>>
\* mutant: only the first value of a group is recorded
OhlcRowFirstOnly(s, lab, val) ==
    IF lab = -1 THEN s
    ELSE LET s1 == [s EXCEPT !.counts = CountRow(@, lab)]
         IN IF val = NaN \/ s1.out[lab][1] # NaN THEN s1
            ELSE [s1 EXCEPT !.out[lab] = << val, val, val, val >>]

OhlcRow(s, lab, val) ==
    IF lab = -1 THEN s
    ELSE LET s1 == [s EXCEPT !.counts = CountRow(@, lab)]
         IN IF val = NaN THEN s1
            ELSE IF s1.out[lab][1] = NaN
                 THEN [s1 EXCEPT !.out[lab] = << val, val, val, val >>]
                 ELSE [s1 EXCEPT !.out[lab] = << @[1], FMax(@[2], val),
                                                 FMin(@[3], val), val >>]

LastRow(s, i, lab, val) ==
    IF lab < 0 THEN s
    ELSE LET s1 == [s EXCEPT !.counts = CountRow(@, lab)]
         IN IF ~IsnaEntry(i, val, dtype, TRUE)
            THEN [s1 EXCEPT !.nobs[lab] = @ + 1, !.resx[lab] = val]
            ELSE s1

NthRecords(n, r) == n = r

NthRow(s, i, lab, val) ==
    IF lab < 0 THEN s
    ELSE LET s1 == [s EXCEPT !.counts = CountRow(@, lab)]
         IN IF ~IsnaEntry(i, val, dtype, TRUE)
            THEN LET n == s1.nobs[lab] + 1
                 IN IF NthRecords(n, rank)
                    THEN [s1 EXCEPT !.nobs[lab] = n, !.resx[lab] = val]
                    ELSE [s1 EXCEPT !.nobs[lab] = n]
            ELSE s1

MinMaxRow(s, i, lab, val, compute_max) ==
    IF lab < 0 THEN s
    ELSE LET s1 == [s EXCEPT !.counts = CountRow(@, lab)]
         IN IF ~IsnaEntry(i, val, dtype, is_datetimelike)
            THEN LET cur == s1.group_min_or_max[lab]
                     upd == IF compute_max THEN FGt(val, cur) ELSE FLt(val, cur)
                 IN [s1 EXCEPT !.nobs[lab] = @ + 1,
                               !.group_min_or_max[lab] = IF upd THEN val ELSE @]
            ELSE s1

KernelRow(k, s, i, lab, val) ==
    CASE k = "group_add" -> AddRow(s, lab, val)
      [] k = "group_prod" -> ProdRow(s, lab, val)
      [] k = "group_var" -> VarRow(s, lab, val)
      [] k = "group_mean" -> MeanRow(s, lab, val)
      [] k = "group_ohlc" -> OhlcRow(s, lab, val)
      [] k = "group_last" -> LastRow(s, i, lab, val)
      [] k = "group_nth" -> NthRow(s, i, lab, val)
      [] k = "group_max" -> MinMaxRow(s, i, lab, val, TRUE)
      [] k = "group_min" -> MinMaxRow(s, i, lab, val, FALSE)

\* `for i in range(N)` over the rows of values; labs are the labels read
RECURSIVE RowLoop(_, _, _, _)
RowLoop(k, s, i, labs) ==
    IF i > N THEN s ELSE RowLoop(k, KernelRow(k, s, i, labs[i], values[i]), i + 1, labs)

\* ------------------------------------------------------- kernel entry
MinMaxSentinel(dt, compute_max) ==
    CASE dt = "int64" -> IF compute_max THEN -Int64Max ELSE Int64Max
      [] dt = "uint64" -> IF compute_max THEN 0 ELSE UInt64Max
      [] OTHER -> IF compute_max THEN -Inf ELSE Inf

\* buffers allocated before the row loop (counts and out are the caller's)
Alloc(k) ==
    LET base == [counts |-> counts, out |-> out, nobs |-> GroupFn(0)]
        c(name, v) == name :> GroupFn(v)
    IN CASE k \in {"group_add", "group_mean"} ->
                base @@ c("sumx", 0) @@ c("compensation", 0)
         [] k = "group_prod" -> base @@ c("prodx", 1)
         [] k = "group_var" -> [base EXCEPT !.out = GroupFn(0)] @@ c("mean", 0)
         [] k = "group_ohlc" ->
                [counts |-> counts, out |-> GroupFn(<< NaN, NaN, NaN, NaN >>)]
         [] k \in {"group_last", "group_nth"} -> base @@ c("resx", Uninit)
         [] k = "group_max" -> base @@ c("group_min_or_max", MinMaxSentinel(dtype, TRUE))
         [] k = "group_min" -> base @@ c("group_min_or_max", MinMaxSentinel(dtype, FALSE))

\* kernels whose entry compares len(values) with len(labels)
ChecksLength(k) ==
    k \in {"group_add", "group_prod", "group_var", "group_mean",
           "group_last", "group_nth", "group_min", "group_max"}

LengthMismatch == Len(values) # Len(labels)

\* labels as the row loop reads them: with boundscheck off, labels[i] past
\* the end of labels is an out-of-bounds read, any label may come back
LabelReads ==
    { l \in [1 .. N -> Labels] :
        \A i \in 1 .. N : i <= Len(labels) => l[i] = labels[i] }


\* ------------------------------------------------------------ finalize
AddFinalCell(n, sx, mc) == IF n < mc THEN NaN ELSE sx

ProdFinalCell(n, px, mc) == IF n < mc THEN NaN ELSE px

\* mutant: ddof decides NaN only, the divisor is the count
VarFinalCellByCount(ct, m2, dd) ==
    IF ct <= dd THEN NaN ELSE (MeanScale * m2) \div ct

\* out carries VarScale = MeanScale^3
VarFinalCell(ct, m2, dd) ==
    IF ct <= dd THEN NaN ELSE (MeanScale * m2) \div (ct - dd)

\* out carries MeanScale
MeanFinalCell(n, sx, dtl) ==
    IF n = 0 THEN (IF dtl THEN NPY_NAT ELSE NaN) ELSE (MeanScale * sx) \div n

\* mutant: the coercion of min_count to at least 1 is forgotten
EffectiveMinCountRaw(mc) == mc

\* `min_count = max(min_count, 1)` of group_last, group_nth, group_min_max
EffectiveMinCount(mc) == IF mc > 1 THEN mc ELSE 1

Cell(o, m, e) == [out |-> o, rmask |-> m, error |-> e]

\* group_last / group_nth; res is resx[i, j] as read (np.empty memory when
\* the row loop never stored into it)
FirstLastFinalCell(n, res, old, oldmask, mc, dt, um) ==
    IF n < mc
    THEN IF um THEN Cell(old, TRUE, FALSE)
         ELSE IF dt = "int64" THEN Cell(NPY_NAT, oldmask, FALSE)
         ELSE IF dt = "uint64" THEN Cell(old, oldmask, TRUE)
         ELSE Cell(NaN, oldmask, FALSE)
    ELSE Cell(res, oldmask, FALSE)

MinMaxFinalCell(n, acc, old, oldmask, mc, dt, um) ==
    IF n < mc
    THEN IF um THEN Cell(0, TRUE, FALSE)
         ELSE IF dt = "uint64" THEN Cell(old, oldmask, TRUE)
         ELSE Cell(IF dt = "int64" THEN NPY_NAT ELSE NaN, oldmask, FALSE)
    ELSE Cell(acc, oldmask, FALSE)

\* what a cell of the element type can hold
ElementValues(dt) ==
    CASE dt = "int64" -> {NPY_NAT, 1, 2}
      [] dt = "uint64" -> {1, 2}
      [] OTHER -> {NaN, 1, 2}

\* contents of resx where the finalize loop reads a cell nobody stored into
ResxReads ==
    IF /\ kernel \in {"group_last", "group_nth"}
       /\ \E g \in Groups : /\ scratch.resx[g] = Uninit
                            /\ scratch.nobs[g] >= EffectiveMinCount(min_count)
    THEN { r \in [Groups -> ElementValues(dtype) \cup {Uninit}] :
             \A g \in Groups :
                (r[g] # Uninit) = (/\ scratch.resx[g] = Uninit
                                   /\ scratch.nobs[g] >= EffectiveMinCount(min_count)) }
    ELSE { GroupFn(Uninit) }

FinalCell(k, g, junk) ==
    CASE k = "group_add" ->
            Cell(AddFinalCell(scratch.nobs[g], scratch.sumx[g], min_count),
                 result_mask[g], FALSE)
      [] k = "group_prod" ->
            Cell(ProdFinalCell(scratch.nobs[g], scratch.prodx[g], min_count),
                 result_mask[g], FALSE)
      [] k = "group_var" ->
            Cell(VarFinalCell(scratch.nobs[g], out[g], ddof), result_mask[g], FALSE)
      [] k = "group_mean" ->
            Cell(MeanFinalCell(scratch.nobs[g], scratch.sumx[g], is_datetimelike),
                 result_mask[g], FALSE)
      [] k \in {"group_last", "group_nth"} ->
            FirstLastFinalCell(scratch.nobs[g],
                               IF scratch.resx[g] = Uninit THEN junk[g]
                               ELSE scratch.resx[g],
                               out[g], result_mask[g],
                               EffectiveMinCount(min_count), dtype, uses_mask)
      [] k \in {"group_min", "group_max"} ->
            MinMaxFinalCell(scratch.nobs[g], scratch.group_min_or_max[g],
                            out[g], result_mask[g],
                            EffectiveMinCount(min_count), dtype, uses_mask)

\* ------------------------------------------------------------- actions
RowLoopKernels ==
    {"group_add", "group_prod", "group_var", "group_mean", "group_ohlc",
     "group_last", "group_nth", "group_min", "group_max"}

\* entry check failed: the kernel raises before it allocates or writes
Reject ==
    /\ pc = "entry"
    /\ ChecksLength(kernel)
    /\ LengthMismatch
    /\ pc' = "raised"
    /\ err' = IF kernel \in {"group_add", "group_prod", "group_var", "group_mean"}
              THEN "ValueError" ELSE "AssertionError"
    /\ UNCHANGED << inputs, mask, pos, counts, out, result_mask, scratch >>

\* group_ohlc: `if len(labels) == 0: return`
OhlcEmpty ==
    /\ pc = "entry"
    /\ kernel = "group_ohlc"
    /\ Len(labels) = 0
    /\ pc' = "done"
    /\ UNCHANGED << inputs, mask, pos, counts, out, result_mask, scratch, err >>

\* allocation and the whole accumulation loop
Accumulate ==
    /\ pc = "entry"
    /\ kernel \in RowLoopKernels
    /\ ChecksLength(kernel) => ~LengthMismatch
    /\ kernel = "group_ohlc" => Len(labels) # 0
    /\ \E labs \in LabelReads :
          LET s == RowLoop(kernel, Alloc(kernel), 1, labs)
          IN /\ counts' = s.counts
             /\ out' = s.out
             /\ scratch' = [f \in DOMAIN s \ {"counts", "out"} |-> s[f]]
    /\ pc' = IF kernel = "group_ohlc" THEN "done" ELSE "finalize"
    /\ UNCHANGED << inputs, mask, pos, result_mask, err >>

\* mutant: the flag is assigned by every cell, the last one wins
RuntimeErrorLastCell(cell) == cell[NGroups - 1].error

\* `runtime_error = True` in any iteration of the finalize loop
RuntimeErrorFlag(cell) == \E g \in Groups : cell[g].error

\* the whole finalize loop, and the raise that follows it
Finalize ==
    /\ pc = "finalize"
    /\ \E junk \in ResxReads :
          LET cell == [g \in Groups |-> FinalCell(kernel, g, junk)]
              runtime_error == RuntimeErrorFlag(cell)
          IN /\ out' = [g \in Groups |-> cell[g].out]
             /\ result_mask' = [g \in Groups |-> cell[g].rmask]
             /\ pc' = IF runtime_error THEN "raised" ELSE "done"
             /\ err' = IF runtime_error THEN "RuntimeError" ELSE err
    /\ UNCHANGED << inputs, mask, pos, counts, scratch >>


\* ---------------------------------------------------------- group_median
\* rows carrying label l, in row order
RowsOf(labs, l) == SelectSeq([i \in 1 .. Len(labs) |-> i], LAMBDA i : labs[i] = l)

\* algos.groupsort_indexer: the stable argsort of labels (the -1 rows come
\* first) and the size of every group, the -1 group included
RECURSIVE GroupsortIndexer(_, _)
GroupsortIndexer(labs, l) ==
    IF l >= NGroups THEN << >> ELSE RowsOf(labs, l) \o GroupsortIndexer(labs, l + 1)

GroupsortCounts(labs) == [l \in Labels |-> Len(RowsOf(labs, l))]

\* algos.kth_smallest_c: the k-th order statistic of a, k counted from 0
KthSmallest(a, k) ==
    CHOOSE x \in { a[i] : i \in 1 .. Len(a) } :
        /\ Cardinality({ i \in 1 .. Len(a) : a[i] < x }) <= k
        /\ k < Cardinality({ i \in 1 .. Len(a) : a[i] <= x })

\* mutant: the upper middle value also when the number of values is even
MedianLinearUpper(a) ==
    LET tmp == SelectSeq(a, LAMBDA v : v # NaN)
        m == Len(tmp)
    IN IF m = 0 THEN NaN ELSE MedianDen * KthSmallest(tmp, m \div 2)

\* median_linear over one group's span; the result carries MedianDen
MedianLinear(a) ==
    LET n == Len(a)
        tmp == SelectSeq(a, LAMBDA v : v # NaN)
        m == Len(tmp)
    IN IF n = 0 THEN NaN
       ELSE IF m = 0 THEN NaN
       ELSE IF m % 2 = 1 THEN MedianDen * KthSmallest(tmp, m \div 2)
       ELSE KthSmallest(tmp, m \div 2) + KthSmallest(tmp, m \div 2 - 1)

GroupMedian ==
    /\ pc = "entry"
    /\ kernel = "group_median"
    /\ LET indexer == GroupsortIndexer(labels, -1)
           _counts == GroupsortCounts(labels)
           data == [p \in 1 .. Len(indexer) |-> values[indexer[p]]]
           start(g) == _counts[-1] + Len(GroupsortIndexer([i \in 1 .. Len(labels) |->
                                       IF labels[i] < g THEN labels[i] ELSE NGroups], 0))
       IN /\ counts' = [g \in Groups |-> _counts[g]]
          /\ out' = [g \in Groups |->
                        MedianLinear(SubSeq(data, start(g) + 1, start(g) + _counts[g]))]
    /\ pc' = "done"
    /\ UNCHANGED << inputs, mask, pos, result_mask, scratch, err >>

\* --------------------------------------------------------------- inputs
Reducers == RowLoopKernels \cup {"group_median"}

MinCounts == {0, 1, 2}
Ranks == {1, 2}
Ddofs == {0, 1}

AcceptsMask == {"group_mean", "group_min", "group_max", "group_last", "group_nth"}
HonoursMinCount ==
    {"group_add", "group_prod", "group_last", "group_nth", "group_min", "group_max"}

DtypesOf(k) ==
    IF k \in {"group_last", "group_nth", "group_min", "group_max"}
    THEN {"float64", "int64", "uint64"}
    ELSE {"float64"}

\* values a caller can store in a column of the element type
InputValues ==
    CASE uses_mask -> {1, 2}
      [] dtype = "float64" /\ is_datetimelike -> {NaN, NPY_NAT, 1}
      [] dtype = "float64" -> {NaN, 1, 2}
      [] dtype = "int64" -> {NPY_NAT, 1, 2}
      [] dtype = "uint64" -> {1, 2}

InitScalars ==
    /\ kernel \in Reducers
    /\ dtype \in DtypesOf(kernel)
    /\ uses_mask \in IF kernel \in AcceptsMask /\ dtype # "int64"
                     THEN BOOLEAN ELSE {FALSE}
    /\ is_datetimelike \in
          IF /\ ~uses_mask
             /\ \/ kernel \in {"group_add", "group_mean"}
                \/ kernel \in {"group_min", "group_max"} /\ dtype = "int64"
          THEN BOOLEAN ELSE {FALSE}
    /\ min_count \in IF kernel \in HonoursMinCount THEN MinCounts ELSE {-1}
    /\ rank \in IF kernel = "group_nth" THEN Ranks ELSE {1}
    /\ ddof \in IF kernel = "group_var" THEN Ddofs ELSE {1}
    /\ args = << >>

InitBuffers ==
    /\ pc = "entry"
    /\ mask_in = mask
    /\ pos = 0
    /\ counts = GroupFn(0)
    /\ out = IF kernel = "group_ohlc"
             THEN GroupFn(<< Uninit, Uninit, Uninit, Uninit >>)
             ELSE GroupFn(Uninit)
    /\ result_mask = GroupFn(FALSE)
    /\ scratch = << >>
    /\ err = ""

InitReduce ==
    /\ InitScalars
    /\ \E n \in 0 .. MaxRows :
          /\ labels \in [1 .. n -> Labels]
          /\ values \in [1 .. n -> InputValues]
          /\ mask \in IF uses_mask THEN [1 .. n -> BOOLEAN] ELSE {<< >>}
    /\ InitBuffers

NextReduce == Accumulate \/ OhlcEmpty \/ Finalize \/ GroupMedian

SpecReduce == InitReduce /\ [][NextReduce]_vars

\* group_median alone, on longer columns
MedianRows == MaxRows + 1

InitMedian ==
    /\ kernel = "group_median"
    /\ dtype = "float64"
    /\ uses_mask = FALSE
    /\ is_datetimelike = FALSE
    /\ min_count = -1
    /\ rank = 1
    /\ ddof = 1
    /\ args = << >>
    /\ \E n \in 0 .. MedianRows :
          /\ labels \in [1 .. n -> Labels]
          /\ values \in [1 .. n -> {NaN, 1, 2, 3}]
    /\ mask = << >>
    /\ InitBuffers

NextMedian == GroupMedian

SpecMedian == InitMedian /\ [][NextMedian]_vars

\* group_var alone, on longer columns
VarRows == MaxRows + 1

InitVar ==
    /\ kernel = "group_var"
    /\ dtype = "float64"
    /\ uses_mask = FALSE
    /\ is_datetimelike = FALSE
    /\ min_count = -1
    /\ rank = 1
    /\ ddof \in Ddofs
    /\ args = << >>
    /\ \E n \in 0 .. VarRows :
          /\ labels \in [1 .. n -> Labels]
          /\ values \in [1 .. n -> {NaN, 5, 7, 9}]
    /\ mask = << >>
    /\ InitBuffers

NextVar == Accumulate \/ Finalize

\* group_add alone, on values of every magnitude of the format
KahanRows == MaxRows + 1
KahanValues == {1, 3, -3, 2^(FloatPrec + 1) - 4, Inf}

InitKahan ==
    /\ kernel = "group_add"
    /\ dtype = "float64"
    /\ uses_mask = FALSE
    /\ is_datetimelike = FALSE
    /\ min_count = 0
    /\ rank = 1
    /\ ddof = 1
    /\ args = << >>
    /\ \E n \in 0 .. KahanRows :
          /\ labels \in [1 .. n -> Labels]
          /\ values \in [1 .. n -> KahanValues]
    /\ mask = << >>
    /\ InitBuffers

NextKahan == Accumulate \/ Finalize

SpecKahan == InitKahan /\ [][NextKahan]_vars

SpecVar == InitVar /\ [][NextVar]_vars


\* ------------------------------------------- group_cummin / group_cummax
CumKernels == {"group_cummin", "group_cummax"}

\* na_possible, and na_val, as set up before the loop
NaPossible ==
    \/ uses_mask
    \/ dtype = "float64"
    \/ is_datetimelike

NaVal ==
    IF uses_mask THEN 0
    ELSE IF dtype = "float64" THEN NaN
    ELSE IF is_datetimelike THEN NPY_NAT
    ELSE 0

CumEntry ==
    /\ pc = "entry"
    /\ kernel \in CumKernels
    /\ scratch' = [accum |-> GroupFn(MinMaxSentinel(dtype, kernel = "group_cummax")),
                   seen_na |-> GroupFn(FALSE)]
    /\ pos' = 1
    /\ pc' = IF N = 0 THEN "done" ELSE "loop"
    /\ UNCHANGED << inputs, mask, counts, out, result_mask, err >>

\* mutant: the latch is never consulted
SeenNaLatchedNever(skipna, seen) == FALSE

\* `if not skipna and na_possible and seen_na[lab, j]`
SeenNaLatched(skipna, seen) == ~skipna /\ NaPossible /\ seen

\* mutant: the caller's mask is left alone, only out is written
PropagateMaskedOutOnly(s, r) == [s EXCEPT !.out[r] = 0]

\* `mask[i, j] = 1` and `out[i, j] = 0` of a row after an NA of its group
PropagateMasked(s, r) == [s EXCEPT !.mask[r] = TRUE, !.out[r] = 0]

\* one iteration of `for i in range(N)`; s is [accum, seen_na, out, mask]
CumMinMaxRow(s, r, lab, val, compute_max) ==
    IF lab < 0 THEN s
    ELSE IF SeenNaLatched(args.skipna, s.seen_na[lab])
    THEN IF uses_mask
         THEN PropagateMasked(s, r)
         ELSE [s EXCEPT !.out[r] = NaVal]
    ELSE LET isna_entry == IF uses_mask THEN s.mask[r]
                           ELSE TreatAsNa(val, dtype, is_datetimelike)
         IN IF ~isna_entry
            THEN LET cur == s.accum[lab]
                     upd == IF compute_max THEN FGt(val, cur) ELSE FLt(val, cur)
                     mval == IF upd THEN val ELSE cur
                 IN [s EXCEPT !.accum[lab] = mval, !.out[r] = mval]
            ELSE [s EXCEPT !.seen_na[lab] = TRUE, !.out[r] = val]

CumRow ==
    /\ pc = "loop"
    /\ kernel \in CumKernels
    /\ LET s == CumMinMaxRow([accum |-> scratch.accum, seen_na |-> scratch.seen_na,
                              out |-> out, mask |-> mask],
                             pos, labels[pos], values[pos], kernel = "group_cummax")
       IN /\ scratch' = [accum |-> s.accum, seen_na |-> s.seen_na]
          /\ out' = s.out
          /\ mask' = s.mask
    /\ pos' = pos + 1
    /\ pc' = IF pos = N THEN "done" ELSE "loop"
    /\ UNCHANGED << inputs, counts, result_mask, err >>

\* ---------------------------------------------- kernels called with a mask
InitMask ==
    /\ kernel \in AcceptsMask \cup CumKernels
    /\ dtype \in IF kernel = "group_mean" THEN {"float64"} ELSE {"float64", "uint64"}
    /\ uses_mask = TRUE
    /\ is_datetimelike = FALSE
    /\ min_count \in IF kernel \in HonoursMinCount THEN MinCounts ELSE {-1}
    /\ rank \in IF kernel = "group_nth" THEN Ranks ELSE {1}
    /\ ddof = 1
    /\ args \in IF kernel \in CumKernels THEN [skipna : BOOLEAN] ELSE {<< >>}
    /\ \E n \in 0 .. MaxRows :
          /\ labels \in [1 .. n -> Labels]
          /\ values \in [1 .. n -> InputValues]
          /\ mask \in [1 .. n -> BOOLEAN]
          /\ out = IF kernel \in CumKernels THEN [r \in 1 .. n |-> Uninit]
                   ELSE GroupFn(Uninit)
    /\ pc = "entry"
    /\ mask_in = mask
    /\ pos = 0
    /\ counts = GroupFn(0)
    /\ result_mask = GroupFn(FALSE)
    /\ scratch = << >>
    /\ err = ""

NextMask == Accumulate \/ Finalize \/ CumEntry \/ CumRow

SpecMask == InitMask /\ [][NextMask]_vars

\* ------------------------------------------------------- group_quantile
\* Probabilities are the dyadic rationals qn / QDen, for which the products
\* q_val * (non_na_sz - 1) of the code are exact; a probability is carried as
\* its numerator qn.  out carries the denominator QOutScale.  Like the value
\* column of the reducers, qs holds one probability (one column of out).
QDen == 2^QBits
QGrid == 0 .. QDen
QOutScale == 2 * QDen
Interpolations == {"linear", "lower", "higher", "nearest", "midpoint"}

FScale(k, v) == IF v = NaN THEN NaN ELSE k * v

\* mutant: masked rows are counted as non-NA too
QuantileNonNaAll(maskbit) == TRUE

\* `if not mask[i]: non_na_counts[lab] += 1`
QuantileNonNa(maskbit) == ~maskbit

QuantileCountRow(s, lab, maskbit) ==
    IF lab = -1 THEN s
    ELSE [s EXCEPT !.counts[lab] = @ + 1,
                   !.non_na_counts[lab] = IF QuantileNonNa(maskbit) THEN @ + 1 ELSE @]

RECURSIVE QuantileCountLoop(_, _)
QuantileCountLoop(s, r) ==
    IF r > Len(labels) THEN s
    ELSE QuantileCountLoop(QuantileCountRow(s, labels[r], mask[r]), r + 1)

\* values[sort_indexer[p]], p a position of the code (counted from 0)
SortedValue(p) == values[args.sort_indexer[p + 1]]

\* idx - grp_start: `<int64_t>(q_val * <float64_t>(non_na_sz - 1))`
QuantileOffset(qn, non_na_sz) == (qn * (non_na_sz - 1)) \div QDen

\* numerator of frac = q_idx % 1
QuantileFrac(qn, non_na_sz) == (qn * (non_na_sz - 1)) % QDen

\* mutant: a tie at frac = .5 always keeps the lower value
NearestTakesNextStrict(fracn, qn) == 2 * fracn > QDen

\* mutant: next_val is read for every probability and mode
QuantileReadsBoth(grp_start, non_na_sz, qn, interp) ==
    LET idx == grp_start + ((qn * (non_na_sz - 1)) \div QDen)
    IN { idx, idx + 1 }

\* `frac > .5 or (frac == .5 and q_val > .5)`
NearestTakesNext(fracn, qn) ==
    2 * fracn > QDen \/ (2 * fracn = QDen /\ 2 * qn > QDen)

\* the positions of sort_indexer read for one cell: idx, and idx + 1 where
\* next_val is fetched
QuantileReads(grp_start, non_na_sz, qn, interp) ==
    LET idx == grp_start + QuantileOffset(qn, non_na_sz)
    IN IF QuantileFrac(qn, non_na_sz) = 0 \/ interp = "lower" THEN { idx }
       ELSE { idx, idx + 1 }

\* out[i, k] of a group with non_na_sz >= 1
QuantileCell(grp_start, non_na_sz, qn, interp) ==
    LET idx == grp_start + QuantileOffset(qn, non_na_sz)
        val == SortedValue(idx)
        fracn == QuantileFrac(qn, non_na_sz)
    IN IF fracn = 0 \/ interp = "lower" THEN FScale(QOutScale, val)
       ELSE LET next_val == SortedValue(idx + 1)
            IN CASE interp = "linear" ->
                       IF val = NaN \/ next_val = NaN THEN NaN
                       ELSE 2 * (QDen * val + (next_val - val) * fracn)
                 [] interp = "higher" -> FScale(QOutScale, next_val)
                 [] interp = "midpoint" ->
                       IF val = NaN \/ next_val = NaN THEN NaN
                       ELSE QDen * (val + next_val)
                 [] interp = "nearest" ->
                       IF NearestTakesNext(fracn, qn)
                       THEN FScale(QOutScale, next_val)
                       ELSE FScale(QOutScale, val)

\* grp_start when the second loop reaches group g
RECURSIVE GrpStart(_, _)
GrpStart(c, g) == IF g = 0 THEN 0 ELSE GrpStart(c, g - 1) + c[g - 1]

\* entry and the first loop: the size of every group
QuantileCount ==
    /\ pc = "entry"
    /\ kernel = "group_quantile"
    /\ Len(values) = Len(labels)
    /\ \A k \in 1 .. Len(args.qs) : 0 <= args.qs[k] /\ args.qs[k] <= QDen
    /\ args.interpolation \in Interpolations
    /\ scratch' = QuantileCountLoop([counts |-> GroupFn(0),
                                     non_na_counts |-> GroupFn(0)], 1)
    /\ pc' = "groups"
    /\ UNCHANGED << inputs, mask, pos, counts, out, result_mask, err >>

\* the second loop, over the groups
QuantileGroups ==
    /\ pc = "groups"
    /\ kernel = "group_quantile"
    /\ out' = [g \in Groups |->
                 IF scratch.non_na_counts[g] = 0 THEN NaN
                 ELSE QuantileCell(GrpStart(scratch.counts, g),
                                   scratch.non_na_counts[g],
                                   args.qs[1], args.interpolation)]
    /\ scratch' = [counts |-> scratch.counts,
                    non_na_counts |-> scratch.non_na_counts,
                    reads |-> [g \in Groups |->
                        IF scratch.non_na_counts[g] = 0 THEN {}
                        ELSE QuantileReads(GrpStart(scratch.counts, g),
                                           scratch.non_na_counts[g],
                                           args.qs[1], args.interpolation)]]
    /\ pc' = "done"
    /\ UNCHANGED << inputs, mask, pos, counts, result_mask, err >>

\* sort keys: the label, with the -1 rows either where -1 sorts (first) or
\* relabelled past the last group; within a label, NA rows after the others
LabelKey(r, na_last) == IF labels[r] = -1 /\ na_last THEN NGroups ELSE labels[r]

RowLE(r1, r2, na_last) ==
    \/ LabelKey(r1, na_last) < LabelKey(r2, na_last)
    \/ /\ LabelKey(r1, na_last) = LabelKey(r2, na_last)
       /\ \/ ~mask[r1] /\ mask[r2]
          \/ mask[r1] /\ mask[r2]
          \/ ~mask[r1] /\ ~mask[r2] /\ values[r1] <= values[r2]

SortIndexers(n, na_last) ==
    { p \in [1 .. n -> 1 .. n] :
        /\ \A a, b \in 1 .. n : a # b => p[a] # p[b]
        /\ \A a \in 1 .. n : a < n => RowLE(p[a], p[a + 1], na_last) }

QuantileRows == { << 1, FALSE >>, << 2, FALSE >>, << NaN, TRUE >> }

InitQuantile ==
    /\ kernel = "group_quantile"
    /\ dtype = "float64"
    /\ uses_mask = TRUE
    /\ is_datetimelike = FALSE
    /\ min_count = -1
    /\ rank = 1
    /\ ddof = 1
    /\ \E n \in 0 .. MaxRows :
          /\ labels \in [1 .. n -> Labels]
          /\ \E rows \in [1 .. n -> QuantileRows] :
                /\ values = [r \in 1 .. n |-> rows[r][1]]
                /\ mask = [r \in 1 .. n |-> rows[r][2]]
          /\ \E na_last \in BOOLEAN, q \in QGrid :
                args \in [qs : {<< q >>}, interpolation : Interpolations,
                          sort_indexer : SortIndexers(n, na_last)]
    /\ pc = "entry"
    /\ mask_in = mask
    /\ pos = 0
    /\ counts = GroupFn(0)
    /\ out = GroupFn(Uninit)
    /\ result_mask = GroupFn(FALSE)
    /\ scratch = << >>
    /\ err = ""

NextQuantile == QuantileCount \/ QuantileGroups

SpecQuantile == InitQuantile /\ [][NextQuantile]_vars

\* group_quantile on groups of up to three values, where q * (m - 1) has a
\* fractional part of one half for q = 1/4 and q = 3/4
InterpRows == MaxRows + 1
InterpValues == { << 1, FALSE >>, << 2, FALSE >>, << 4, FALSE >>, << NaN, TRUE >> }

InitInterp ==
    /\ kernel = "group_quantile"
    /\ dtype = "float64"
    /\ uses_mask = TRUE
    /\ is_datetimelike = FALSE
    /\ min_count = -1
    /\ rank = 1
    /\ ddof = 1
    /\ \E n \in 0 .. InterpRows :
          /\ labels \in [1 .. n -> Labels]
          /\ \E rows \in [1 .. n -> InterpValues] :
                /\ values = [r \in 1 .. n |-> rows[r][1]]
                /\ mask = [r \in 1 .. n |-> rows[r][2]]
          /\ \E na_last \in BOOLEAN, q \in QGrid :
                args \in [qs : {<< q >>}, interpolation : Interpolations,
                          sort_indexer : SortIndexers(n, na_last)]
    /\ pc = "entry"
    /\ mask_in = mask
    /\ pos = 0
    /\ counts = GroupFn(0)
    /\ out = GroupFn(Uninit)
    /\ result_mask = GroupFn(FALSE)
    /\ scratch = << >>
    /\ err = ""

NextInterp == QuantileCount \/ QuantileGroups

SpecInterp == InitInterp /\ [][NextInterp]_vars

\* -------------------------------------------------- group_shift_indexer
\* Rows are numbered from 0 as in the code; labels is a sequence, so the
\* label of row r is labels[r + 1].  out is indexed by row.
RowIds == 0 .. (Len(labels) - 1)
Lab(r) == labels[r + 1]
ShiftRows == MaxRows + 3

\* mutant: a hit as soon as `periods` rows of the group have been seen
ShiftHitAtPeriods(seen, periods) == seen >= periods

\* `if label_seen[lab] > periods`
ShiftHit(seen, periods) == seen > periods

\* mutant: one slot instead of a ring of `periods` slots
ShiftSlotZero(seen, periods) == 0

\* `idxer_slot = label_seen[lab] % periods`
ShiftSlot(seen, periods) == seen % periods

\* `if periods == 0: out[i] = i`
ShiftIdentity ==
    /\ pc = "entry"
    /\ kernel = "group_shift_indexer"
    /\ args.periods = 0
    /\ out' = [r \in RowIds |-> r]
    /\ pc' = "done"
    /\ UNCHANGED << inputs, mask, pos, counts, result_mask, scratch, err >>

\* direction of the walk and the ring of previous rows of every group
ShiftEntry ==
    /\ pc = "entry"
    /\ kernel = "group_shift_indexer"
    /\ args.periods # 0
    /\ LET p == IF args.periods < 0 THEN -args.periods ELSE args.periods
       IN scratch' = [periods |-> p,
                      offset |-> IF args.periods < 0 THEN N - 1 ELSE 0,
                      sign |-> IF args.periods < 0 THEN -1 ELSE 1,
                      label_seen |-> GroupFn(0),
                      label_indexer |-> GroupFn([slot \in 0 .. (p - 1) |-> 0])]
    /\ pos' = 0
    /\ pc' = IF N = 0 THEN "done" ELSE "rows"
    /\ UNCHANGED << inputs, mask, counts, out, result_mask, err >>

\* one iteration of `for i in range(N)`
ShiftRow ==
    /\ pc = "rows"
    /\ kernel = "group_shift_indexer"
    /\ LET ii == scratch.offset + scratch.sign * pos
           lab == Lab(ii)
       IN IF lab = -1
          THEN /\ out' = [out EXCEPT ![ii] = -1]
               /\ UNCHANGED scratch
          ELSE LET seen == scratch.label_seen[lab] + 1
                   idxer_slot == ShiftSlot(seen, scratch.periods)
                   idxer == scratch.label_indexer[lab][idxer_slot]
               IN /\ out' = [out EXCEPT ![ii] =
                               IF ShiftHit(seen, scratch.periods) THEN idxer ELSE -1]
                  /\ scratch' = [scratch EXCEPT !.label_seen[lab] = seen,
                                                !.label_indexer[lab][idxer_slot] = ii]
    /\ pos' = pos + 1
    /\ pc' = IF pos + 1 = N THEN "done" ELSE "rows"
    /\ UNCHANGED << inputs, mask, counts, result_mask, err >>

\* a second call on the same labels with the periods negated; the first
\* call's out is kept in args.first_out
ShiftBack ==
    /\ pc = "done"
    /\ kernel = "group_shift_indexer"
    /\ args.call = 1
    /\ args.periods # 0
    /\ args' = [call |-> 2, periods |-> -args.periods, first_out |-> out]
    /\ out' = [r \in RowIds |-> Uninit]
    /\ pos' = 0
    /\ scratch' = << >>
    /\ pc' = "entry"
    /\ UNCHANGED << kernel, dtype, values, labels, uses_mask, min_count, rank,
                    ddof, is_datetimelike, mask_in, mask, counts, result_mask, err >>

InitShift ==
    /\ kernel = "group_shift_indexer"
    /\ dtype = "int64"
    /\ uses_mask = FALSE
    /\ is_datetimelike = FALSE
    /\ min_count = -1
    /\ rank = 1
    /\ ddof = 1
    /\ \E n \in 0 .. ShiftRows :
          /\ labels \in [1 .. n -> Labels]
          /\ values = [r \in 1 .. n |-> 0]
          /\ mask = [r \in 1 .. n |-> FALSE]
          /\ out = [r \in 0 .. (n - 1) |-> Uninit]
          /\ \E p \in (-MaxPeriods) .. MaxPeriods :
                args = [call |-> 1, periods |-> p,
                        first_out |-> [r \in 0 .. (n - 1) |-> Uninit]]
    /\ pc = "entry"
    /\ mask_in = mask
    /\ pos = 0
    /\ counts = GroupFn(0)
    /\ result_mask = GroupFn(FALSE)
    /\ scratch = << >>
    /\ err = ""

NextShift == ShiftIdentity \/ ShiftEntry \/ ShiftRow \/ ShiftBack

SpecShift == InitShift /\ [][NextShift]_vars

\* ------------------------------------------------- group_fillna_indexer
Msk(r) == mask[r + 1]
FillRows == MaxRows + 1
Limits == (-1) .. MaxLimit

\* `np.argsort(labels, kind="mergesort")`, reversed if direction == "bfill";
\* position k (from 0) of the walk holds SortedLabels(direction)[k + 1]
RowBefore(r1, r2) == Lab(r1) < Lab(r2) \/ (Lab(r1) = Lab(r2) /\ r1 < r2)

StableRank(r) == Cardinality({ x \in RowIds : RowBefore(x, r) })

SortedLabels(direction) ==
    [k \in 1 .. Len(labels) |->
        LET want == IF direction = "bfill" THEN Len(labels) - k ELSE k - 1
        IN CHOOSE r \in RowIds : StableRank(r) = want]

\* mutant: one fill more than the limit
FillStopLate(filled_vals, limit) == filled_vals > limit /\ limit # -1

\* `if filled_vals >= limit and limit != -1`
FillStop(filled_vals, limit) == filled_vals >= limit /\ limit # -1

\* `assert N == len(labels) == len(mask)`
FillEntry ==
    /\ pc = "entry"
    /\ kernel = "group_fillna_indexer"
    /\ Len(labels) = Len(mask)
    /\ scratch' = [curr_fill_idx |-> -1, filled_vals |-> 0]
    /\ pos' = 0
    /\ pc' = IF N = 0 THEN "done" ELSE "rows"
    /\ UNCHANGED << inputs, mask, counts, out, result_mask, err >>

\* one iteration of `for i in range(N)`
FillRow ==
    /\ pc = "rows"
    /\ kernel = "group_fillna_indexer"
    /\ LET idx == args.sorted_labels[pos + 1]
           s1 == IF args.dropna /\ Lab(idx) = -1
                 THEN [scratch EXCEPT !.curr_fill_idx = -1]
                 ELSE IF Msk(idx)
                 THEN [curr_fill_idx |->
                          IF FillStop(scratch.filled_vals, args.limit)
                          THEN -1 ELSE scratch.curr_fill_idx,
                       filled_vals |-> scratch.filled_vals + 1]
                 ELSE [curr_fill_idx |-> idx, filled_vals |-> 0]
       IN /\ out' = [out EXCEPT ![idx] = s1.curr_fill_idx]
          /\ scratch' = IF pos = N - 1 \/ Lab(idx) # Lab(args.sorted_labels[pos + 2])
                        THEN [curr_fill_idx |-> -1, filled_vals |-> 0]
                        ELSE s1
    /\ pos' = pos + 1
    /\ pc' = IF pos + 1 = N THEN "done" ELSE "rows"
    /\ UNCHANGED << inputs, mask, counts, result_mask, err >>

InitFill ==
    /\ kernel = "group_fillna_indexer"
    /\ dtype = "int64"
    /\ uses_mask = TRUE
    /\ is_datetimelike = FALSE
    /\ min_count = -1
    /\ rank = 1
    /\ ddof = 1
    /\ \E n \in 0 .. FillRows :
          /\ labels \in [1 .. n -> Labels]
          /\ mask \in [1 .. n -> BOOLEAN]
          /\ values = [r \in 1 .. n |-> 0]
          /\ out = [r \in 0 .. (n - 1) |-> Uninit]
    /\ \E direction \in {"ffill", "bfill"}, limit \in Limits, dropna \in BOOLEAN :
          args = [direction |-> direction, limit |-> limit, dropna |-> dropna,
                  sorted_labels |-> SortedLabels(direction)]
    /\ pc = "entry"
    /\ mask_in = mask
    /\ pos = 0
    /\ counts = GroupFn(0)
    /\ result_mask = GroupFn(FALSE)
    /\ scratch = << >>
    /\ err = ""

NextFill == FillEntry \/ FillRow

SpecFill == InitFill /\ [][NextFill]_vars

\* -------------------------------------------------------- group_any_all
\* One column; values are int8 truth values, mask is given with every call.
ValTests == {"any", "all", "sum"}

FlagVal(val_test) == IF val_test = "all" THEN 0 ELSE 1

\* mutant: a masked cell always makes the result unknown
AnyAllUnknownAlways(cur, flag_val) == TRUE

\* `if out[lab, j] != flag_val`
AnyAllUnknown(cur, flag_val) == cur # flag_val

\* `raise ValueError("'bool_func' must be either 'any' or 'all'!")`
AnyAllReject ==
    /\ pc = "entry"
    /\ kernel = "group_any_all"
    /\ args.val_test \notin {"any", "all"}
    /\ err' = "ValueError"
    /\ pc' = "raised"
    /\ UNCHANGED << inputs, mask, pos, counts, out, result_mask, scratch >>

\* `out[:] = 1 - flag_val`
AnyAllEntry ==
    /\ pc = "entry"
    /\ kernel = "group_any_all"
    /\ args.val_test \in {"any", "all"}
    /\ out' = GroupFn(1 - FlagVal(args.val_test))
    /\ pos' = 1
    /\ pc' = IF Len(labels) = 0 THEN "done" ELSE "loop"
    /\ UNCHANGED << inputs, mask, counts, result_mask, scratch, err >>

\* one iteration of `for i in range(N)`
AnyAllCell(o, lab, val, maskbit, flag_val, skipna, nullable) ==
    IF lab < 0 THEN o
    ELSE IF skipna /\ maskbit THEN o
    ELSE IF nullable /\ maskbit
    THEN IF AnyAllUnknown(o[lab], flag_val) THEN [o EXCEPT ![lab] = -1] ELSE o
    ELSE IF val = flag_val THEN [o EXCEPT ![lab] = flag_val] ELSE o

AnyAllRow ==
    /\ pc = "loop"
    /\ kernel = "group_any_all"
    /\ out' = AnyAllCell(out, labels[pos], values[pos], mask[pos],
                         FlagVal(args.val_test), args.skipna, args.nullable)
    /\ pos' = pos + 1
    /\ pc' = IF pos = Len(labels) THEN "done" ELSE "loop"
    /\ UNCHANGED << inputs, mask, counts, result_mask, scratch, err >>

InitAnyAll ==
    /\ kernel = "group_any_all"
    /\ dtype = "int8"
    /\ uses_mask = TRUE
    /\ is_datetimelike = FALSE
    /\ min_count = -1
    /\ rank = 1
    /\ ddof = 1
    /\ args \in [val_test : ValTests, skipna : BOOLEAN, nullable : BOOLEAN]
    /\ \E n \in 0 .. MaxRows :
          /\ labels \in [1 .. n -> Labels]
          /\ values \in [1 .. n -> {0, 1}]
          /\ mask \in [1 .. n -> BOOLEAN]
    /\ pc = "entry"
    /\ mask_in = mask
    /\ pos = 0
    /\ counts = GroupFn(0)
    /\ out = GroupFn(Uninit)
    /\ result_mask = GroupFn(FALSE)
    /\ scratch = << >>
    /\ err = ""

NextAnyAll == AnyAllReject \/ AnyAllEntry \/ AnyAllRow

SpecAnyAll == InitAnyAll /\ [][NextAnyAll]_vars

\* ----------------------------------------- group_cumsum / group_cumprod
\* values is column j of the call.  The inner loop over the columns is left
\* by `break` at a NaN when skipna is false, so whether column j of a row is
\* reached depends on the columns before it: args.K is the number of columns
\* (j = K - 1) and args.col0 the column before j when K = 2.
SumProdKernels == {"group_cumsum", "group_cumprod_float64"}
ColumnCounts == {1, 2}

WrapInt(x, dt) ==
    IF dt = "int64" THEN ((x + 2^(IntBits - 1)) % 2^IntBits) - 2^(IntBits - 1)
    ELSE IF dt = "uint64" THEN x % 2^IntBits
    ELSE x

FAdd(a, b) == IF a = NaN \/ b = NaN THEN NaN ELSE a + b
\* mutant: operands swapped
FSubReversed(a, b) == IF a = NaN \/ b = NaN THEN NaN ELSE b - a

FSub(a, b) == IF a = NaN \/ b = NaN THEN NaN ELSE a - b
FMul(a, b) == IF a = NaN \/ b = NaN THEN NaN ELSE a * b

\* `break` at column 0 of row r
LeftByBreak(r) == args.K = 2 /\ ~args.skipna /\ args.col0[r] = NaN

\* s is [accum, compensation, out]
CumsumRow(s, r, lab, val) ==
    IF lab < 0 \/ LeftByBreak(r) THEN s
    ELSE IF dtype = "float64"
    THEN IF val # NaN
         THEN LET y == FSub(val, s.compensation[lab])
                  t == FAdd(s.accum[lab], y)
              IN [s EXCEPT !.compensation[lab] = FSub(FSub(t, s.accum[lab]), y),
                           !.accum[lab] = t,
                           !.out[r] = t]
         ELSE IF ~args.skipna
              THEN [s EXCEPT !.out[r] = NaN, !.accum[lab] = NaN]
              ELSE [s EXCEPT !.out[r] = NaN]
    ELSE LET t == WrapInt(val + s.accum[lab], dtype)
         IN [s EXCEPT !.accum[lab] = t, !.out[r] = t]

CumprodRow(s, r, lab, val) ==
    IF lab < 0 \/ LeftByBreak(r) THEN s
    ELSE IF val # NaN
    THEN LET a == FMul(s.accum[lab], val)
         IN [s EXCEPT !.accum[lab] = a, !.out[r] = a]
    ELSE IF ~args.skipna
         THEN [s EXCEPT !.out[r] = NaN, !.accum[lab] = NaN]
         ELSE [s EXCEPT !.out[r] = NaN]

\* accum = np.zeros / np.ones, compensation = np.zeros
SumProdEntry ==
    /\ pc = "entry"
    /\ kernel \in SumProdKernels
    /\ scratch' = [accum |-> GroupFn(IF kernel = "group_cumsum" THEN 0 ELSE 1),
                   compensation |-> GroupFn(0)]
    /\ pos' = 1
    /\ pc' = IF N = 0 THEN "done" ELSE "loop"
    /\ UNCHANGED << inputs, mask, counts, out, result_mask, err >>

\* one iteration of `for i in range(N)`
SumProdRow ==
    /\ pc = "loop"
    /\ kernel \in SumProdKernels
    /\ LET s0 == [accum |-> scratch.accum, compensation |-> scratch.compensation,
                  out |-> out]
           s == IF kernel = "group_cumsum"
                THEN CumsumRow(s0, pos, labels[pos], values[pos])
                ELSE CumprodRow(s0, pos, labels[pos], values[pos])
       IN /\ scratch' = [accum |-> s.accum, compensation |-> s.compensation]
          /\ out' = s.out
    /\ pos' = pos + 1
    /\ pc' = IF pos = N THEN "done" ELSE "loop"
    /\ UNCHANGED << inputs, mask, counts, result_mask, err >>

\* ------------------------------------------------------------- the scans
ScanKernels == SumProdKernels \cup CumKernels

ScanDtypes(k) ==
    IF k = "group_cumprod_float64" THEN {"float64"} ELSE {"float64", "int64", "uint64"}

InitScan ==
    /\ kernel \in ScanKernels
    /\ dtype \in ScanDtypes(kernel)
    /\ uses_mask \in IF kernel \in CumKernels /\ dtype # "int64" THEN BOOLEAN ELSE {FALSE}
    /\ is_datetimelike \in IF kernel \in CumKernels /\ dtype = "int64" /\ ~uses_mask
                           THEN BOOLEAN ELSE {FALSE}
    /\ min_count = -1
    /\ rank = 1
    /\ ddof = 1
    /\ \E n \in 0 .. MaxRows :
          /\ labels \in [1 .. n -> Labels]
          /\ values \in [1 .. n -> InputValues]
          /\ mask \in IF uses_mask THEN [1 .. n -> BOOLEAN] ELSE {[r \in 1 .. n |-> FALSE]}
          /\ out = [r \in 1 .. n |-> Uninit]
          /\ \E skipna \in BOOLEAN, K \in ColumnCounts :
                /\ K = 2 => (kernel \in SumProdKernels /\ dtype = "float64")
                /\ \E col0 \in IF K = 2 THEN [1 .. n -> {NaN, 1}] ELSE {[r \in 1 .. n |-> 1]} :
                      args = [skipna |-> skipna, K |-> K, col0 |-> col0]
    /\ pc = "entry"
    /\ mask_in = mask
    /\ pos = 0
    /\ counts = GroupFn(0)
    /\ result_mask = GroupFn(FALSE)
    /\ scratch = << >>
    /\ err = ""

NextScan == CumEntry \/ CumRow \/ SumProdEntry \/ SumProdRow

SpecScan == InitScan /\ [][NextScan]_vars

\* ------------------------------------------------------------ all kernels
\* every kernel of the module, each on the inputs of its own specification
InitKernels ==
    \/ InitReduce
    \/ InitMask
    \/ InitQuantile
    \/ InitShift
    \/ InitFill
    \/ InitAnyAll
    \/ InitScan

NextKernels ==
    \/ Accumulate \/ OhlcEmpty \/ Finalize \/ GroupMedian
    \/ CumEntry \/ CumRow \/ SumProdEntry \/ SumProdRow
    \/ QuantileCount \/ QuantileGroups
    \/ ShiftIdentity \/ ShiftEntry \/ ShiftRow \/ ShiftBack
    \/ FillEntry \/ FillRow
    \/ AnyAllReject \/ AnyAllEntry \/ AnyAllRow

SpecKernels == InitKernels /\ [][NextKernels]_vars

\* ======================================================================
\* Properties of the reducers
\* ======================================================================
Returned == pc = "done"

RowsIn(g) == { i \in 1 .. Len(labels) : labels[i] = g }

\* missingness of the cell of row i as the kernel's element type defines it
\* (group_last and group_nth have no is_datetimelike argument: NAT is NA)
ValueIsNA(i) ==
    CASE dtype = "int64" ->
            (kernel \in {"group_last", "group_nth"} \/ is_datetimelike)
            /\ values[i] = NPY_NAT
      [] dtype = "uint64" -> FALSE
      [] OTHER -> \/ values[i] = NaN
                  \/ /\ kernel \in {"group_add", "group_mean"}
                     /\ is_datetimelike
                     /\ values[i] = NPY_NAT

\* group_mean never reads its mask
CellIsNA(i) ==
    IF uses_mask /\ kernel # "group_mean" THEN mask[i] ELSE ValueIsNA(i)

NonNARows(g) == { i \in RowsIn(g) : ~CellIsNA(i) }
NonNACount(g) == Cardinality(NonNARows(g))

\* NA representation of the output element type
NARep ==
    IF dtype = "int64" \/ (kernel = "group_mean" /\ is_datetimelike)
    THEN NPY_NAT ELSE NaN

OutIsNA(g) ==
    IF kernel = "group_ohlc"
    THEN \A c \in 1 .. 4 : out[g][c] = NaN
    ELSE IF uses_mask /\ kernel # "group_mean"
    THEN result_mask[g]
    ELSE out[g] = NARep

RECURSIVE SumOver(_), ProdOver(_)
SumOver(S) == IF S = {} THEN 0 ELSE LET i == CHOOSE x \in S : TRUE
                                    IN values[i] + SumOver(S \ {i})
ProdOver(S) == IF S = {} THEN 1 ELSE LET i == CHOOSE x \in S : TRUE
                                     IN values[i] * ProdOver(S \ {i})

SetMax(S) == CHOOSE x \in S : \A y \in S : y <= x
SetMin(S) == CHOOSE x \in S : \A y \in S : x <= y

\* C1: when a reducer returns on a zero-initialised counts buffer, counts[g]
\* is the number of rows labelled g, rows whose value is NA included, and the
\* rows labelled -1 are counted in no group.
C1_CountsAreGroupSizes ==
    (Returned /\ kernel \in Reducers)
        => \A g \in Groups : counts[g] = Cardinality(RowsIn(g))

C1_Witness ==
    /\ Returned
    /\ kernel \in Reducers
    /\ \E i \in 1 .. N : labels[i] = -1
    /\ \E i \in 1 .. N : labels[i] = 1 /\ CellIsNA(i)
    /\ counts[1] = 1
    /\ NonNACount(1) = 0

\* C2: group_add / group_prod write NA exactly when fewer than min_count
\* non-NA values were seen, and the sum / product otherwise.
C2_AddProdThreshold ==
    (Returned /\ kernel \in {"group_add", "group_prod"})
        => \A g \in Groups :
              IF NonNACount(g) < min_count
              THEN out[g] = NaN
              ELSE out[g] = IF kernel = "group_add"
                            THEN SumOver(NonNARows(g)) ELSE ProdOver(NonNARows(g))

\* the output cell of a group whose int64 input holds the sentinel as an
\* ordinary value cannot be told from NA; such groups say nothing here
SentinelFree(g) ==
    \A i \in RowsIn(g) : (dtype = "int64" /\ values[i] = NPY_NAT) => CellIsNA(i)

\* C2: group_min, group_max, group_last write NA exactly when fewer than
\* max(min_count, 1) non-NA values were seen.
C2_MinMaxLastThreshold ==
    (Returned /\ kernel \in {"group_min", "group_max", "group_last"})
        => \A g \in Groups :
              SentinelFree(g) =>
                 (OutIsNA(g) <=> NonNACount(g) < EffectiveMinCount(min_count))

\* C2: group_nth writes NA exactly when fewer than max(min_count, 1) non-NA
\* values were seen.
C2_NthThreshold ==
    (Returned /\ kernel = "group_nth")
        => \A g \in Groups :
              OutIsNA(g) <=> NonNACount(g) < EffectiveMinCount(min_count)

\* C2: the thresholds of all kernels that honour min_count
C2_MinCountThreshold ==
    C2_AddProdThreshold /\ C2_MinMaxLastThreshold /\ C2_NthThreshold

\* C3 (as claimed): every reducer leaves NA in a cell that received no
\* non-NA contribution.
C3_NAPurity_AllReducers ==
    (Returned /\ kernel \in Reducers)
        => \A g \in Groups : NonNACount(g) = 0 => OutIsNA(g)

\* C3 (amended): a cell without non-NA contribution holds NA (or its
\* result_mask bit) on return, except that group_add / group_prod called with
\* min_count <= 0 write the empty sum 0 / the empty product 1, and that
\* group_ohlc given no rows writes nothing.
C3_NAPurity ==
    (Returned /\ kernel \in Reducers)
        => \A g \in Groups :
              NonNACount(g) = 0 =>
                 CASE kernel = "group_add" /\ min_count <= 0 -> out[g] = 0
                   [] kernel = "group_prod" /\ min_count <= 0 -> out[g] = 1
                   [] kernel = "group_ohlc" /\ N = 0 ->
                        out[g] = << Uninit, Uninit, Uninit, Uninit >>
                   [] OTHER -> OutIsNA(g)

C3_Witness ==
    /\ Returned
    /\ kernel = "group_min"
    /\ min_count = 0
    /\ ~uses_mask
    /\ dtype = "float64"
    /\ \E i \in 1 .. N : labels[i] = 0 /\ values[i] = NaN
    /\ NonNACount(0) = 0
    /\ out[0] = NaN
    /\ NonNACount(1) = 1


\* ======================================================================
\* Properties of the kernels called with a mask
\* ======================================================================
UnmaskedRows(g) == { r \in RowsIn(g) : ~mask_in[r] }

\* the unmasked rows of g in row order
UnmaskedSeq(g) == SelectSeq([r \in 1 .. N |-> r],
                            LAMBDA r : labels[r] = g /\ ~mask_in[r])

ValuesAt(S) == { values[r] : r \in S }

\* the aggregate a reducer owes to a group, computed from unmasked cells only
MaskedAggregate(g) ==
    CASE kernel = "group_min" -> SetMin(ValuesAt(UnmaskedRows(g)))
      [] kernel = "group_max" -> SetMax(ValuesAt(UnmaskedRows(g)))
      [] kernel = "group_last" -> values[SetMax(UnmaskedRows(g))]
      [] kernel = "group_nth" -> values[UnmaskedSeq(g)[rank]]

\* nobs counts exactly the unmasked cells, and the output is the aggregate of
\* the unmasked cells, NA (result_mask) below the threshold
MaskDecidesReducer ==
    /\ pc \in {"finalize", "done"} =>
          \A g \in Groups : scratch.nobs[g] = Cardinality(UnmaskedRows(g))
    /\ Returned =>
          \A g \in Groups :
             LET n == Cardinality(UnmaskedRows(g))
             IN /\ result_mask[g] <=> n < EffectiveMinCount(min_count)
                /\ (~result_mask[g] /\ (kernel = "group_nth" => n >= rank))
                      => out[g] = MaskedAggregate(g)

\* rows of the group of row r, at or before r, whose cell is unmasked
UnmaskedUpTo(r) == { q \in UnmaskedRows(labels[r]) : q <= r }

MaskedBefore(r) == \E q \in RowsIn(labels[r]) : q < r /\ mask_in[q]

\* every processed row of a real group: after an NA of its group with
\* skipna = false the output is NA (mask bit set); a masked cell stays masked
\* and changes no running extremum; an unmasked cell gets the extremum of the
\* unmasked cells of its group up to it
MaskDecidesScan ==
    \A r \in 1 .. N :
       (r < pos /\ labels[r] >= 0) =>
          IF ~args.skipna /\ MaskedBefore(r) THEN mask[r]
          ELSE IF mask_in[r] THEN mask[r]
          ELSE /\ ~mask[r]
               /\ out[r] = IF kernel = "group_cummax"
                           THEN SetMax(ValuesAt(UnmaskedUpTo(r)))
                           ELSE SetMin(ValuesAt(UnmaskedUpTo(r)))

InitLen ==
    /\ kernel \in RowLoopKernels
    /\ dtype = "float64"
    /\ uses_mask = FALSE
    /\ is_datetimelike = FALSE
    /\ min_count = IF kernel \in HonoursMinCount THEN 0 ELSE -1
    /\ rank = 1
    /\ ddof = 1
    /\ args = << >>
    /\ \E n \in 0 .. MaxRows, m \in 0 .. MaxRows :
          /\ n # m
          /\ values \in [1 .. n -> InputValues]
          /\ labels \in [1 .. m -> Labels]
    /\ mask = << >>
    /\ InitBuffers

NextLen == Reject \/ OhlcEmpty \/ Accumulate

SpecLen == InitLen /\ [][NextLen]_vars

NothingWritten ==
    /\ counts = GroupFn(0)
    /\ result_mask = GroupFn(FALSE)
    /\ out = IF kernel = "group_ohlc"
             THEN GroupFn(<< Uninit, Uninit, Uninit, Uninit >>)
             ELSE GroupFn(Uninit)

\* C4: a kernel given values and labels of different lengths ends in a
\* validation failure and has written no cell of out, counts or result_mask.
C4_LengthMismatchRejected ==
    LengthMismatch =>
       /\ pc \in {"entry", "raised"}
       /\ pc = "raised" => err \in {"ValueError", "AssertionError"}
       /\ NothingWritten


\* ======================================================================
\* Properties of group_quantile
\* ======================================================================
\* sort_indexer lists every row labelled -1 after all rows of real groups
NAGroupLast ==
    \A a, b \in 1 .. N :
       (labels[args.sort_indexer[a]] = -1 /\ labels[args.sort_indexer[b]] # -1) => b < a

QuantileEndpoints ==
    \A g \in Groups :
       LET S == { values[r] : r \in { x \in RowsIn(g) : ~mask[x] } }
       IN S # {} =>
            /\ args.qs[1] = 0 => out[g] = QOutScale * SetMin(S)
            /\ args.qs[1] = QDen => out[g] = QOutScale * SetMax(S)

\* C6 (as claimed): for any labels in {-1} \cup [0, G) and a sort_indexer
\* ordered by label, then value, NAs last within a group, q = 0 gives the
\* group's minimum and q = 1 its maximum, in every interpolation mode.
C6_QuantileEndpoints_AnyLabels ==
    (kernel = "group_quantile" /\ Returned) => QuantileEndpoints

\* C6 (amended): the same, provided sort_indexer lists the rows labelled -1
\* after the rows of all real groups (or no row is labelled -1).
C6_QuantileEndpoints ==
    (kernel = "group_quantile" /\ Returned /\ NAGroupLast) => QuantileEndpoints

C6_Witness ==
    /\ kernel = "group_quantile"
    /\ Returned
    /\ NAGroupLast
    /\ \E r \in 1 .. N : labels[r] = -1
    /\ \E r \in 1 .. N : labels[r] = 1 /\ ~mask[r]
    /\ args.qs[1] = QDen
    /\ out[1] = QOutScale * SetMax({ values[r] : r \in { x \in RowsIn(1) : ~mask[x] } })


\* ======================================================================
\* Properties of group_shift_indexer
\* ======================================================================
SameGroupBefore(r) == { x \in RowIds : x < r /\ Lab(x) = Lab(r) }
SameGroupAfter(r) == { x \in RowIds : x > r /\ Lab(x) = Lab(r) }

\* the p-th largest member of S, or -1 when S has fewer than p members
PthFromTop(S, p) ==
    IF Cardinality(S) < p THEN -1
    ELSE CHOOSE x \in S : Cardinality({ y \in S : y > x }) = p - 1

PthFromBottom(S, p) ==
    IF Cardinality(S) < p THEN -1
    ELSE CHOOSE x \in S : Cardinality({ y \in S : y < x }) = p - 1

ShiftReturned == kernel = "group_shift_indexer" /\ pc = "done"

\* C7: for periods = p > 0 a row of a group gets the index of the p-th
\* preceding row of its group, for periods = -p < 0 the index of the p-th
\* following row of its group, and -1 when the group has fewer than p such
\* rows.  (The rows of a group are the rows with that label in [0, G).)
C7_ShiftIsPthNeighbour ==
    ShiftReturned =>
       \A r \in RowIds :
          Lab(r) # -1 =>
             /\ args.periods > 0 =>
                   out[r] = PthFromTop(SameGroupBefore(r), args.periods)
             /\ args.periods < 0 =>
                   out[r] = PthFromBottom(SameGroupAfter(r), -args.periods)

\* labels [0,0,0,0,0] with periods 2 give [-1,-1,0,1,2]
C7_Witness ==
    /\ ShiftReturned
    /\ labels = << 0, 0, 0, 0, 0 >>
    /\ args.periods = 2
    /\ \A r \in RowIds : out[r] = IF r < 2 THEN -1 ELSE r - 2

\* C8: every row labelled -1 gets out = -1, whatever periods is.
C8_NullKeyRowsGetMinusOne ==
    ShiftReturned => \A r \in RowIds : Lab(r) = -1 => out[r] = -1

\* C9: with a the out of a call with periods = p # 0 and b the out of a call
\* on the same labels with periods = -p, b[a[i]] = i for every row i with
\* a[i] # -1.
C9_ShiftRoundTrip ==
    (ShiftReturned /\ args.call = 2) =>
       \A r \in RowIds :
          args.first_out[r] # -1 => out[args.first_out[r]] = r

C9_Witness ==
    /\ ShiftReturned
    /\ args.call = 2
    /\ \E r \in RowIds : args.first_out[r] \notin {-1, r - 1, r + 1}
    /\ \E r \in RowIds : Lab(r) = -1
    /\ \E r \in RowIds : Lab(r) # -1 /\ args.first_out[r] = -1

\* ======================================================================
\* Properties of group_fillna_indexer
\* ======================================================================
\* position (from 0) of row r in the walk
WalkPos(r) == CHOOSE k \in RowIds : args.sorted_labels[k + 1] = r

\* the non-missing rows of r's group walked before r
Donors(r) ==
    { x \in RowIds : Lab(x) = Lab(r) /\ ~Msk(x) /\ WalkPos(x) < WalkPos(r) }

NearestDonor(r) ==
    CHOOSE x \in Donors(r) : \A y \in Donors(r) : WalkPos(y) <= WalkPos(x)

FillExpected(r) ==
    IF args.dropna /\ Lab(r) = -1 THEN -1
    ELSE IF ~Msk(r) THEN r
    ELSE IF Donors(r) = {} THEN -1
    ELSE IF args.limit = -1 \/ WalkPos(r) - WalkPos(NearestDonor(r)) <= args.limit
         THEN NearestDonor(r)
         ELSE -1

FillReturned == kernel = "group_fillna_indexer" /\ pc = "done"

\* C10: with sorted_labels a stable argsort of labels (reversed for bfill), a
\* non-missing row outside a dropped NA group gets its own index; a missing
\* row gets the nearest non-missing row of its group walked before it when at
\* most `limit` missing rows have been walked since (limit = -1: no bound),
\* else -1; out never names a row of another label or a missing row; with
\* dropna every row labelled -1 gets -1.
C10_FillnaIndexer ==
    FillReturned =>
       \A r \in RowIds :
          /\ out[r] = FillExpected(r)
          /\ out[r] # -1 => (Lab(out[r]) = Lab(r) /\ ~Msk(out[r]))
          /\ (args.dropna /\ Lab(r) = -1) => out[r] = -1

C10_Witness ==
    /\ FillReturned
    /\ args.limit = 1
    /\ \E r \in RowIds : Lab(r) # -1 /\ Msk(r) /\ out[r] \notin {-1, r}
    /\ \E r \in RowIds : Lab(r) # -1 /\ Msk(r) /\ Donors(r) # {} /\ out[r] = -1


\* ======================================================================
\* Properties of group_any_all
\* ======================================================================
AnyAllReturned == kernel = "group_any_all" /\ pc = "done"

HasMasked(g) == \E r \in RowsIn(g) : mask[r]

HasDecisive(g) ==
    \E r \in RowsIn(g) : ~mask[r] /\ values[r] = FlagVal(args.val_test)

KleeneUnknown == \A g \in Groups : (out[g] = -1) <=> (HasMasked(g) /\ ~HasDecisive(g))

\* C11 (as claimed): with nullable = true and either value of skipna,
\* out[g] = -1 iff group g has a masked cell and no unmasked cell holding
\* flag_val.
C11_KleeneUnknown_AnySkipna ==
    (AnyAllReturned /\ args.nullable) => KleeneUnknown

\* C11 (amended): with nullable = true and skipna = false, out[g] = -1 iff
\* group g has a masked cell and no unmasked cell holding flag_val; with
\* skipna = true masked cells are skipped and out is never -1.
C11_KleeneUnknown ==
    (AnyAllReturned /\ args.nullable) =>
       IF args.skipna THEN \A g \in Groups : out[g] # -1 ELSE KleeneUnknown

C11_Witness ==
    /\ AnyAllReturned
    /\ args.nullable
    /\ ~args.skipna
    /\ out[0] = -1
    /\ \E r \in RowsIn(0) : ~mask[r]


\* ======================================================================
\* Properties of the scans
\* ======================================================================
\* rows the loop has been through
Processed == IF pc = "loop" THEN 1 .. (pos - 1)
             ELSE IF pc = "done" THEN 1 .. N ELSE {}

InputNA(r) == IF uses_mask THEN mask_in[r] ELSE TreatAsNa(values[r], dtype, is_datetimelike)

ScanOutNA(r) == IF uses_mask THEN mask[r] ELSE out[r] = NaVal

NAAmong(S) == \E q \in S : InputNA(q)

EarlierInGroup(r) == { q \in 1 .. N : q < r /\ labels[q] = labels[r] }

RunningExtremum(r) ==
    LET S == { values[q] : q \in { x \in EarlierInGroup(r) \cup {r} : ~InputNA(x) } }
    IN IF kernel = "group_cummax" THEN SetMax(S) ELSE SetMin(S)

\* C12: in group_cummin / group_cummax the latch seen_na of a group is set
\* exactly when an NA input of the group has been processed (so it is never
\* cleared); with skipna = false every row of the group processed after the
\* first NA gets an NA output whatever its value; with skipna = true an NA
\* input gives NA at its own row only and the other rows carry the running
\* extremum of the non-NA values.
C12_NALatch ==
    (kernel \in CumKernels /\ NaPossible /\ pc \in {"loop", "done"}) =>
       /\ \A g \in Groups :
             scratch.seen_na[g] <=> NAAmong({ q \in Processed : labels[q] = g })
       /\ \A r \in Processed :
             labels[r] # -1 =>
                IF InputNA(r) \/ (~args.skipna /\ NAAmong(EarlierInGroup(r)))
                THEN ScanOutNA(r)
                ELSE out[r] = RunningExtremum(r) /\ ~ScanOutNA(r)

\* a non-NA row after the first NA of its group, skipna = false
C12_Witness ==
    /\ kernel \in CumKernels
    /\ pc = "done"
    /\ ~args.skipna
    /\ ~uses_mask
    /\ \E r \in 1 .. N :
          /\ labels[r] # -1
          /\ ~InputNA(r)
          /\ NAAmong(EarlierInGroup(r))
          /\ out[r] = NaN


\* C13: group_cumsum / group_cumprod on float input with skipna = false, any
\* number of columns: the row holding the first NaN of column j within a
\* group and every later row of the group have out[i, j] = NaN.
C13_NaNFromFirstNA ==
    (kernel \in SumProdKernels /\ dtype = "float64" /\ ~args.skipna /\ pc = "done") =>
       \A r \in 1 .. N :
          (labels[r] # -1 /\ NAAmong(EarlierInGroup(r) \cup {r})) => out[r] = NaN

\* group_add with min_count = 0 on the same values and labels
GroupAddOut(g) ==
    LET s == RowLoop("group_add", Alloc("group_add"), 1, labels)
    IN AddFinalCell(s.nobs[g], s.sumx[g], 0)

LastRowOf(g) == SetMax(RowsIn(g))

NoNAInput ==
    /\ \A r \in 1 .. N : values[r] # NaN
    /\ \A r \in 1 .. N : args.col0[r] # NaN

\* C14: on input without NA, in any row order, group_cumsum's out at the last
\* row of a non-empty group equals what group_add (min_count = 0) writes for
\* that group.
C14_CumsumTotalIsGroupAdd ==
    (kernel = "group_cumsum" /\ dtype = "float64" /\ NoNAInput /\ pc = "done") =>
       \A g \in Groups : RowsIn(g) # {} => out[LastRowOf(g)] = GroupAddOut(g)

C14_Witness ==
    /\ kernel = "group_cumsum"
    /\ dtype = "float64"
    /\ NoNAInput
    /\ pc = "done"
    /\ Cardinality(RowsIn(0)) = 2
    /\ out[LastRowOf(0)] = GroupAddOut(0)
    /\ out[LastRowOf(0)] = 3


\* the kernel's state before the first row, and one row step of kernel k
ScanStart(k) ==
    IF k \in CumKernels
    THEN [accum |-> GroupFn(MinMaxSentinel(dtype, k = "group_cummax")),
          seen_na |-> GroupFn(FALSE),
          out |-> [r \in 1 .. N |-> Uninit],
          mask |-> mask_in]
    ELSE [accum |-> GroupFn(IF k = "group_cumsum" THEN 0 ELSE 1),
          compensation |-> GroupFn(0),
          out |-> [r \in 1 .. N |-> Uninit]]

ScanStep(k, s, r) ==
    CASE k \in CumKernels -> CumMinMaxRow(s, r, labels[r], values[r], k = "group_cummax")
      [] k = "group_cumsum" -> CumsumRow(s, r, labels[r], values[r])
      [] k = "group_cumprod_float64" -> CumprodRow(s, r, labels[r], values[r])

\* the kernel run over the rows listed in rows only
RECURSIVE ScanFold(_, _, _)
ScanFold(k, s, rows) ==
    IF rows = << >> THEN s ELSE ScanFold(k, ScanStep(k, s, Head(rows)), Tail(rows))

\* the rows of r's group up to r, in row order
GroupPrefix(r) ==
    SelectSeq([x \in 1 .. N |-> x], LAMBDA x : x <= r /\ labels[x] = labels[r])

\* C15: in the four scans out[i] of a row of a group is written, and with the
\* value the kernel computes from the rows i' <= i of the same label alone,
\* whatever the other rows hold; rows labelled -1 are not written.
C15_ScanDependsOnOwnGroup ==
    (kernel \in ScanKernels /\ pc = "done") =>
       \A r \in 1 .. N :
          IF labels[r] = -1 THEN out[r] = Uninit
          ELSE /\ out[r] # Uninit
               /\ out[r] = ScanFold(kernel, ScanStart(kernel), GroupPrefix(r)).out[r]


\* ======================================================================
\* Properties of single reducers
\* ======================================================================
\* the k-th non-NA row of group g in row order (k <= NonNACount(g))
KthNonNARow(g, k) ==
    CHOOSE r \in NonNARows(g) : Cardinality({ q \in NonNARows(g) : q < r }) = k - 1

\* C16: on return from group_nth every output cell holds the rank-th non-NA
\* value of its group in row order, or NA (NaN / NaT, or its result_mask bit
\* set); it holds nothing else.
C16_NthValueOrNA ==
    (Returned /\ kernel = "group_nth") =>
       \A g \in Groups :
          \/ OutIsNA(g)
          \/ /\ NonNACount(g) >= rank
             /\ out[g] = values[KthNonNARow(g, rank)]


\* C17: group_max (group_min) writes the maximum (minimum) of the non-NA
\* values of a group that has at least max(min_count, 1) of them, whatever
\* the values are, the most negative integer of signed input included.
C17_MinMaxIsExtremum ==
    (Returned /\ kernel \in {"group_min", "group_max"}) =>
       \A g \in Groups :
          NonNACount(g) >= EffectiveMinCount(min_count) =>
             out[g] = IF kernel = "group_max"
                      THEN SetMax({ values[r] : r \in NonNARows(g) })
                      ELSE SetMin({ values[r] : r \in NonNARows(g) })


RaisesOnEmpty == {"group_min", "group_max", "group_last", "group_nth"}

SomeCellShort == \E g \in Groups : NonNACount(g) < EffectiveMinCount(min_count)

\* C18: on unsigned input without a mask, group_min / max / last / nth raise
\* the empty-group error exactly when some cell has fewer than
\* max(min_count, 1) non-NA contributions, and only once both loops have
\* run to their end; with a mask no error is raised.
C18_EmptyGroupUnsigned ==
    (kernel \in RaisesOnEmpty /\ dtype = "uint64") =>
       /\ pc \in {"entry", "finalize"} => err = ""
       /\ pc \in {"done", "raised"} =>
             /\ (err = "RuntimeError") <=> (~uses_mask /\ SomeCellShort)
             /\ (pc = "raised") <=> (err = "RuntimeError")
             /\ \A g \in Groups :
                   /\ counts[g] = Cardinality(RowsIn(g))
                   /\ (~uses_mask /\ NonNACount(g) >= EffectiveMinCount(min_count))
                         => out[g] # Uninit

\* raised although the first group was complete and has been written
C18_Witness ==
    /\ kernel \in RaisesOnEmpty
    /\ dtype = "uint64"
    /\ ~uses_mask
    /\ pc = "raised"
    /\ err = "RuntimeError"
    /\ NonNACount(0) >= EffectiveMinCount(min_count)
    /\ out[0] # Uninit
    /\ out[1] = Uninit


OhlcExpected(g) ==
    IF NonNACount(g) = 0 THEN << NaN, NaN, NaN, NaN >>
    ELSE LET S == { values[r] : r \in NonNARows(g) }
         IN << values[SetMin(NonNARows(g))], SetMax(S), SetMin(S),
               values[SetMax(NonNARows(g))] >>

\* C19 (as claimed): group_ohlc writes open = first, high = max, low = min,
\* close = last non-NA value of a group, and a group without a non-NA value
\* has NaN in all four columns.
C19_OhlcIdentities_AnyInput ==
    (Returned /\ kernel = "group_ohlc") => \A g \in Groups : out[g] = OhlcExpected(g)

\* C19 (amended): the same when the call has at least one row; with no rows
\* the kernel returns without writing out.
C19_OhlcIdentities ==
    (Returned /\ kernel = "group_ohlc") =>
       \A g \in Groups :
          out[g] = IF Len(labels) = 0 THEN << Uninit, Uninit, Uninit, Uninit >>
                   ELSE OhlcExpected(g)

C19_Witness ==
    /\ Returned
    /\ kernel = "group_ohlc"
    /\ NonNACount(0) = 2
    /\ out[0] = << 2, 2, 1, 1 >>
    /\ out[1] = << NaN, NaN, NaN, NaN >>


\* the k-th (from 0) of the non-NA values of group g in ascending order,
\* ties broken by row
RowPrecedes(q, r) == values[q] < values[r] \/ (values[q] = values[r] /\ q < r)

OrderStatistic(g, k) ==
    LET r == CHOOSE x \in NonNARows(g) :
                Cardinality({ q \in NonNARows(g) : RowPrecedes(q, x) }) = k
    IN values[r]

\* the median of group g, carrying MedianDen
MedianExpected(g) ==
    LET n == NonNACount(g)
    IN IF n = 0 THEN NaN
       ELSE IF n % 2 = 1 THEN MedianDen * OrderStatistic(g, n \div 2)
       ELSE OrderStatistic(g, n \div 2 - 1) + OrderStatistic(g, n \div 2)

\* C20: group_median writes the median of the non-NA values of the rows
\* labelled g (middle order statistic, or the mean of the two middle ones),
\* NaN when there is none; rows labelled -1 contribute nowhere and the row
\* order does not matter.
C20_MedianOfNonNA ==
    (Returned /\ kernel = "group_median") =>
       \A g \in Groups : out[g] = MedianExpected(g)

C20_Witness ==
    /\ Returned
    /\ kernel = "group_median"
    /\ N = 3
    /\ \E r \in 1 .. N : labels[r] = -1
    /\ NonNACount(0) = 2
    /\ values[SetMin(RowsIn(0))] > values[SetMax(RowsIn(0))]
    /\ out[0] = 3
    /\ out[1] = NaN


\* ======================================================================
\* Properties of group_var
\* ======================================================================
RECURSIVE SumSqOver(_)
SumSqOver(S) == IF S = {} THEN 0 ELSE LET i == CHOOSE x \in S : TRUE
                                      IN values[i] * values[i] + SumSqOver(S \ {i})

\* sum of squared deviations from the mean over (n - ddof), carrying VarScale:
\* sum (v - mean)^2 = (n * sum v^2 - (sum v)^2) / n
VarExpected(g) ==
    LET R == NonNARows(g)
        n == Cardinality(R)
    IN IF n <= ddof THEN NaN
       ELSE (VarScale * (n * SumSqOver(R) - SumOver(R) * SumOver(R)))
               \div (n * (n - ddof))

\* C21: group_var writes NaN iff the number n of non-NA values of the group
\* is at most ddof, and otherwise their sum of squared deviations from the
\* mean divided by n - ddof, in whatever order the rows come.
C21_VarIsSampleVariance ==
    (Returned /\ kernel = "group_var") =>
       \A g \in Groups :
          /\ out[g] = VarExpected(g)
          /\ (out[g] = NaN) <=> (NonNACount(g) <= ddof)

\* values [5, 7, 9] with labels [0, 0, 1], ddof = 1, give [2.0, NaN]
C21_Witness ==
    /\ Returned
    /\ kernel = "group_var"
    /\ ddof = 1
    /\ values = << 5, 7, 9 >>
    /\ labels = << 0, 0, 1 >>
    /\ out[0] = 2 * VarScale
    /\ out[1] = NaN


\* ======================================================================
\* Properties of the compensated sum
\* ======================================================================
RECURSIVE SumAbsOver(_)
SumAbsOver(S) == IF S = {} THEN 0 ELSE LET i == CHOOSE x \in S : TRUE
                                       IN Abs(values[i]) + SumAbsOver(S \ {i})

\* |out - exact sum| <= 2 * eps * sum |v| with eps = 2^-FloatPrec; a group
\* holding +infinity (and no -infinity) has the sum +infinity
KahanWithinBound(g) ==
    LET R == NonNARows(g)
    IN IF \A r \in R : IsFinite(values[r])
       THEN /\ IsFinite(out[g])
            /\ 2^FloatPrec * Abs(out[g] - SumOver(R)) <= 2 * SumAbsOver(R)
       ELSE out[g] = Inf

\* C22: the compensated sum group_add writes for a group of floating-point
\* values differs from their exact sum by no more than 2 * eps * sum |v|,
\* however many values the group has.
C22_KahanBound ==
    (Returned /\ kernel = "group_add") => \A g \in Groups : KahanWithinBound(g)

\* the cell of group g by the interpolation rule, from the inputs alone
QuantileExpected(g) ==
    LET m == Cardinality({ r \in RowsIn(g) : ~mask[r] })
        start == Cardinality({ r \in 1 .. N : labels[r] \in 0 .. g - 1 })
        qn == args.qs[1]
        fl == CHOOSE k \in 0 .. m : k * QDen <= qn * (m - 1) /\ qn * (m - 1) < (k + 1) * QDen
        fracn == qn * (m - 1) - fl * QDen
        v == values[args.sort_indexer[start + fl + 1]]
        w == values[args.sort_indexer[start + fl + 2]]
        mode == args.interpolation
    IN IF m = 0 THEN NaN
       ELSE IF fracn = 0 \/ mode = "lower" THEN FScale(QOutScale, v)
       ELSE IF mode = "higher" THEN FScale(QOutScale, w)
       ELSE IF mode = "nearest"
            THEN IF 2 * fracn > QDen \/ (2 * fracn = QDen /\ 2 * qn > QDen)
                 THEN FScale(QOutScale, w) ELSE FScale(QOutScale, v)
       ELSE IF v = NaN \/ w = NaN THEN NaN
       ELSE IF mode = "linear" THEN QOutScale * v + 2 * fracn * (w - v)
       ELSE QDen * (v + w)

\* C23: for every group g with m >= 1 non-NA values, group_quantile writes
\* v = values[sort_indexer[idx]], idx = grp_start + floor(q (m - 1)), when the
\* fractional part frac of q (m - 1) is 0 or the mode is lower; otherwise
\* v + (v' - v) frac for linear, v' for higher, (v + v') / 2 for midpoint, and
\* for nearest v' if frac > .5 or (frac = .5 and q > .5), else v; a group
\* with m = 0 gets NaN.
C23_QuantileInterpolation ==
    (kernel = "group_quantile" /\ Returned) =>
       \A g \in Groups : out[g] = QuantileExpected(g)

\* three values 1, 2, 4 in group 0, q = 3/4, nearest: q (m - 1) = 1.5, the
\* tie goes to the upper neighbour
C23_Witness ==
    /\ kernel = "group_quantile"
    /\ Returned
    /\ N = 3
    /\ \A r \in 1 .. N : labels[r] = 0 /\ ~mask[r]
    /\ { values[r] : r \in 1 .. N } = { 1, 2, 4 }
    /\ 4 * args.qs[1] = 3 * QDen
    /\ args.interpolation = "nearest"
    /\ out[0] = QOutScale * 4

\* the rows of group g whose value is not NA
QuantileOwnRows(g) == { r \in RowsIn(g) : ~mask[r] }

\* every position read for group g lies in [grp_start, grp_start + m) and
\* inside sort_indexer
QuantileReadsInSpan ==
    \A g \in Groups :
       LET m == Cardinality(QuantileOwnRows(g))
           start == Cardinality({ r \in 1 .. N : labels[r] \in 0 .. g - 1 })
       IN \A p \in scratch.reads[g] : start <= p /\ p < start + m /\ p < N

\* every row read for group g is a non-NA row of group g
QuantileReadsOwnRows ==
    \A g \in Groups :
       \A p \in scratch.reads[g] : args.sort_indexer[p + 1] \in QuantileOwnRows(g)

\* C25 (as claimed): every position read for a group lies in
\* [grp_start, grp_start + m) and inside sort_indexer, and the rows read are
\* non-NA rows of that group: none of its NA tail, none of another group.
C25_QuantileReads_AnyLabels ==
    (kernel = "group_quantile" /\ Returned) =>
       QuantileReadsInSpan /\ QuantileReadsOwnRows

\* C25 (amended): every position read lies in [grp_start, grp_start + m) and
\* inside sort_indexer; the rows read are non-NA rows of the group provided
\* sort_indexer lists the rows labelled -1 after those of all real groups.
C25_QuantileReads ==
    (kernel = "group_quantile" /\ Returned) =>
       /\ QuantileReadsInSpan
       /\ NAGroupLast => QuantileReadsOwnRows

\* group 1 has two values and follows a row of group 0: val is read at
\* position 1 and next_val at position 2, the last of the group
C25_Witness ==
    /\ kernel = "group_quantile"
    /\ Returned
    /\ NAGroupLast
    /\ \E r \in 1 .. N : labels[r] = 0
    /\ Cardinality(QuantileOwnRows(1)) = 2
    /\ scratch.reads[1] = { 1, 2 }

\* ======================================================================
\* Frame of the kernels
\* ======================================================================
\* row r of a masked group_cummin / group_cummax call without skipna has been
\* processed and comes after an NA cell of its group
MaskPropagatedTo(r) ==
    /\ kernel \in CumKernels
    /\ uses_mask
    /\ ~args.skipna
    /\ pc \in {"loop", "done"}
    /\ r < pos
    /\ labels[r] >= 0
    /\ MaskedBefore(r)

\* the mask differs from the caller's exactly at the propagated rows
MaskFrame ==
    /\ Len(mask) = Len(mask_in)
    /\ \A r \in 1 .. Len(mask) :
          IF MaskPropagatedTo(r) THEN mask[r] = TRUE /\ out[r] = 0
          ELSE mask[r] = mask_in[r]

\* C24: no kernel modifies values or labels, and none modifies the mask it
\* was given, except group_cummin / group_cummax called with a mask and
\* skipna = false, which set mask[i] = 1 and out[i] = 0 exactly at the rows
\* that come after an NA cell of their group; with skipna = true, and at rows
\* at or before the first NA of their group, the mask is unchanged.
C24_FrameEffect ==
    /\ []MaskFrame
    /\ [][values' = values /\ labels' = labels]_vars

\* group_cummax, skipna = false: the second row of group 0 follows a masked
\* one and was passed unmasked
C24_Witness ==
    /\ kernel = "group_cummax"
    /\ uses_mask
    /\ Returned
    /\ ~args.skipna
    /\ N = 2
    /\ labels = << 0, 0 >>
    /\ mask_in = << TRUE, FALSE >>
    /\ mask = << TRUE, TRUE >>
    /\ out[2] = 0

====
